---- MODULE Spec2Model ----
(***************************************************************************)
(* Model of modnote_snoonote_importer: the SnooNote export parser, the     *)
(* reference resolution, the message chunking and the posting loop.        *)
(*                                                                         *)
(* Text that the program inspects character by character (messages,        *)
(* headers, usernames, URLs) is a sequence of one-character strings.       *)
(* Text the program only compares or looks up (display names, labels,      *)
(* error types) is a TLA+ string.                                          *)
(***************************************************************************)
EXTENDS Integers, Sequences, FiniteSets, TLC

VARIABLES
    \* ---- the run: main() calling parse() and then convert()
    export,          \* the export file on disk (input, never written)
    pc,              \* where the run stands
    note_type_map,   \* SnooNoteParser._note_type_map
    note_types,      \* SnooNoteParser._note_types
    notes,           \* SnooNoteParser._notes
    i,               \* convert: index of the record being converted
    thing,           \* convert: the resolved reference of the record
    gen,             \* convert: the texts still to post for the record
    post,            \* the innermost _post_to_reddit frame
    escaped,         \* the exception that left parse or convert, or NoExc
    calls,           \* every call made on the platform client, in order
    \* ---- split_message_into_chunks driven on its own
    sHeader, sMessage, sMax,   \* the arguments
    sCopy,                     \* the local `copy`
    sChunks,                   \* the chunks yielded so far
    sDone                      \* the generator has returned

runVars == <<export, pc, note_type_map, note_types, notes, i, thing, gen,
             post, escaped, calls>>
splitVars == <<sHeader, sMessage, sMax, sCopy, sChunks, sDone>>
vars == <<export, pc, note_type_map, note_types, notes, i, thing, gen,
          post, escaped, calls, sHeader, sMessage, sMax, sCopy, sChunks, sDone>>

(***************************************************************************)
(* Python string primitives                                                *)
(***************************************************************************)
Min(a, b) == IF a <= b THEN a ELSE b

Max(a, b) == IF a >= b THEN a ELSE b

\* The index a Python slice bound n denotes in a string of length len.
PyBound(n, len) == IF n >= 0 THEN Min(n, len) ELSE Max(len + n, 0)

\* s[:n]
PySliceTo(s, n) == SubSeq(s, 1, PyBound(n, Len(s)))

\* s[n:]
PySliceFrom(s, n) == SubSeq(s, PyBound(n, Len(s)) + 1, Len(s))

\* str.isspace() of one character (the ASCII whitespace str.strip() removes).
IsSpace(c) == c \in {" ", "\t", "\n", "\r", "\f"}

RECURSIVE LStrip(_)
LStrip(s) == IF s # <<>> /\ IsSpace(Head(s)) THEN LStrip(Tail(s)) ELSE s

RECURSIVE RStrip(_)
RStrip(s) ==
    IF s # <<>> /\ IsSpace(s[Len(s)]) THEN RStrip(SubSeq(s, 1, Len(s) - 1)) ELSE s

\* str.strip()
Strip(s) == RStrip(LStrip(s))

UpperChars == <<"A","B","C","D","E","F","G","H","I","J","K","L","M",
                "N","O","P","Q","R","S","T","U","V","W","X","Y","Z">>

LowerChars == <<"a","b","c","d","e","f","g","h","i","j","k","l","m",
                "n","o","p","q","r","s","t","u","v","w","x","y","z">>

LowerChar(c) ==
    IF \E k \in DOMAIN UpperChars : UpperChars[k] = c
    THEN LowerChars[CHOOSE k \in DOMAIN UpperChars : UpperChars[k] = c]
    ELSE c

\* str.lower()
Lower(s) == [k \in DOMAIN s |-> LowerChar(s[k])]

\* c repeated n times
Rep(c, n) == [k \in 1..n |-> c]

(***************************************************************************)
(* split_message_into_chunks(header, message, max_size): a generator.      *)
(* Its state between two yields is the local `copy`.                       *)
(***************************************************************************)
ChunkLen(header, max_size) == max_size - Len(header)

\* chunk = header + copy[:chunk_len].strip()
ChunkOf(header, copy, max_size) ==
    header \o Strip(PySliceTo(copy, ChunkLen(header, max_size)))

\* copy = copy[chunk_len:]
RestOf(header, copy, max_size) == PySliceFrom(copy, ChunkLen(header, max_size))

(***************************************************************************)
(* Program constants                                                       *)
(***************************************************************************)
\* parser.py: MOD_NOTE_MESSAGE_LENGTH in convert
MOD_NOTE_MESSAGE_LENGTH == 250

\* "None" stands for Python's None.
SNOONOTE_TO_MOD_NOTE_LABELS ==
    [n \in {"Abuse Warning", "Ban", "Bot Ban", "Good Contributor", "Good User",
            "None", "Perma Ban", "Shadow Ban", "Spam Ban", "Spam Perma",
            "Spam Warn", "Spam Warning", "Spam Watch"} |->
        CASE n = "Abuse Warning" -> "ABUSE_WARNING"
          [] n = "Ban" -> "BAN"
          [] n = "Bot Ban" -> "BOT_BAN"
          [] n = "Good Contributor" -> "SOLID_CONTRIBUTOR"
          [] n = "Good User" -> "SOLID_CONTRIBUTOR"
          [] n = "None" -> "None"
          [] n = "Perma Ban" -> "PERMA_BAN"
          [] n = "Shadow Ban" -> "BOT_BAN"
          [] n = "Spam Ban" -> "BAN"
          [] n = "Spam Perma" -> "PERMA_BAN"
          [] n = "Spam Warn" -> "SPAM_WARNING"
          [] n = "Spam Warning" -> "SPAM_WARNING"
          [] n = "Spam Watch" -> "SPAM_WATCH"]

\* the literal "[deleted]" of parse
DeletedMarker ==
    <<"[","d","e","l","e","t","e","d","]">>

(***************************************************************************)
(* Timestamps: dateutil.parser.isoparse and datetime.isoformat             *)
(***************************************************************************)
\* The timestamp texts of the exports below that are ISO-8601; on any other
\* text isoparse raises ValueError.
IsoParseRaises(text) ==
    text \notin {"2022-09-24T18:46:14.15Z", "2021-01-05T07:03:09Z"}

\* dateutil.parser.isoparse(text), for a text it accepts
IsoParse(text) ==
    CASE text = "2022-09-24T18:46:14.15Z" ->
            [year |-> 2022, month |-> 9, day |-> 24, hour |-> 18, minute |-> 46,
             second |-> 14, microsecond |-> 150000, utcoffset |-> 0]
      [] text = "2021-01-05T07:03:09Z" ->
            [year |-> 2021, month |-> 1, day |-> 5, hour |-> 7, minute |-> 3,
             second |-> 9, microsecond |-> 0, utcoffset |-> 0]

DigitChars == <<"0","1","2","3","4","5","6","7","8","9">>

\* n written in decimal on `width` digits, zero-padded
RECURSIVE Digits(_, _)
Digits(n, width) ==
    IF width = 0 THEN <<>>
    ELSE Append(Digits(n \div 10, width - 1), DigitChars[(n % 10) + 1])

\* datetime.isoformat(timespec="seconds") of a timezone-aware datetime
IsoFormatSeconds(dt) ==
    LET off == IF dt.utcoffset >= 0 THEN dt.utcoffset ELSE 0 - dt.utcoffset
    IN  Digits(dt.year, 4) \o <<"-">> \o Digits(dt.month, 2) \o <<"-">>
        \o Digits(dt.day, 2) \o <<"T">> \o Digits(dt.hour, 2) \o <<":">>
        \o Digits(dt.minute, 2) \o <<":">> \o Digits(dt.second, 2)
        \o <<(IF dt.utcoffset >= 0 THEN "+" ELSE "-")>>
        \o Digits(off \div 60, 2) \o <<":">> \o Digits(off % 60, 2)

(***************************************************************************)
(* The exports the run is checked on                                       *)
(***************************************************************************)
NameTechman ==
    <<"T","e","c","h","m","a","n","-">>

NameDeletedMixed ==
    <<"[","D","e","l","e","t","e","d","]">>

\* tests/test_parser.py: bad_url_1, a URL with no trailing id segment
UrlNoId ==
    <<"h","t","t","p","s",":","/","/","r","e","d","d","i","t",".","c","o",
      "m","/","r","/","D","e","s","t","i","n","y","T","h","e","G","a","m",
      "e","/">>

\* tests/test_parser.py: edge_submission_url, whose final path segment is the
\* id of a submission
UrlEdgeSubmission ==
    <<"h","t","t","p","s",":","/","/","r","e","d","d","i","t",".","c","o",
      "m","/","r","/","D","e","s","t","i","n","y","T","h","e","G","a","m",
      "e","/","s","g","g","6","9","2">>

\* a Url field that holds no "/" at all
UrlEmpty == <<>>

MessageShort ==
    <<"T","e","s","t"," ","m","e","s","s","a","g","e">>

\* longer than one Mod Note: two chunks, the split falling in a run of spaces
MessageLong == Rep("a", 205) \o Rep(" ", 8) \o Rep("b", 30)

TypeGoodUser ==
    [NoteTypeID |-> 12, SubName |-> "Techman", DisplayName |-> "Good User",
     ColorCode |-> "008000", DisplayOrder |-> 1, Bold |-> FALSE,
     Italic |-> FALSE, IconString |-> "None", Disabled |-> FALSE]

\* a display name that SNOONOTE_TO_MOD_NOTE_LABELS does not hold
TypeUnmapped ==
    [NoteTypeID |-> 13, SubName |-> "Techman", DisplayName |-> "Cool Guy",
     ColorCode |-> "ff0000", DisplayOrder |-> 3, Bold |-> TRUE,
     Italic |-> FALSE, IconString |-> "None", Disabled |-> FALSE]

NoteShort ==
    [NoteID |-> 1, NoteTypeID |-> 12, SubName |-> "Techman",
     Submitter |-> NameTechman, Message |-> MessageShort,
     AppliesToUsername |-> NameTechman, Url |-> UrlEdgeSubmission,
     Timestamp |-> "2022-09-24T18:46:14.15Z", ParentSubreddit |-> "None"]

NoteLong ==
    [NoteShort EXCEPT !.NoteID = 2, !.Message = MessageLong, !.Url = UrlEmpty,
                      !.Timestamp = "2021-01-05T07:03:09Z"]

NoteDeleted ==
    [NoteShort EXCEPT !.NoteID = 4, !.AppliesToUsername = NameDeletedMixed,
                      !.Url = UrlNoId]

NoteBadTime == [NoteShort EXCEPT !.NoteID = 6, !.Timestamp = "24/09/2022"]

\* the item has no "Url" key
NoteNoUrlKey ==
    [k \in DOMAIN NoteShort \ {"Url"} |-> IF k = "NoteID" THEN 7 ELSE NoteShort[k]]

NoteTypeItems == {TypeGoodUser, TypeUnmapped}

NoteItems == {NoteShort, NoteLong, NoteDeleted, NoteBadTime, NoteNoUrlKey}

\* How many note types and how many notes an export holds at most.
MaxNoteTypes == 2
MaxNotes == 2

\* The sequences of up to n distinct members of S (identifiers are unique
\* within an export).
RECURSIVE DistinctSeqs(_, _)
DistinctSeqs(S, n) ==
    IF n = 0 THEN {<<>>}
    ELSE LET shorter == DistinctSeqs(S, n - 1)
         IN  shorter \cup
             UNION {{Append(s, c) : c \in S \ {s[k] : k \in DOMAIN s}} :
                       s \in {t \in shorter : Len(t) = n - 1}}

\* An export's NoteTypeID of a note is a foreign key to its note types.
Exports ==
    {e \in [readable : BOOLEAN,
            NoteTypes : DistinctSeqs(NoteTypeItems, MaxNoteTypes),
            Notes : DistinctSeqs(NoteItems, MaxNotes)] :
        \A n \in DOMAIN e.Notes :
            \E t \in DOMAIN e.NoteTypes :
                e.NoteTypes[t].NoteTypeID = e.Notes[n].NoteTypeID}

(***************************************************************************)
(* SnooNoteParser.parse                                                    *)
(***************************************************************************)
NoEscape == [in |-> "none", exc |-> "NoExc"]

NoteTypeKeys == {"NoteTypeID", "SubName", "DisplayName", "ColorCode",
                 "DisplayOrder", "Bold", "Italic", "IconString", "Disabled"}

\* the keys of a note item read before its "Timestamp" is parsed
NoteKeysToTimestamp == {"NoteID", "NoteTypeID", "SubName", "Submitter", "Message",
                        "AppliesToUsername", "Url", "Timestamp"}

\* SnooNoteType(note_type_id=item["NoteTypeID"], ...)
MakeNoteType(item) ==
    [note_type_id |-> item.NoteTypeID, sub_name |-> item.SubName,
     display_name |-> item.DisplayName, color_code |-> item.ColorCode,
     display_order |-> item.DisplayOrder, bold |-> item.Bold,
     italic |-> item.Italic, icon_string |-> item.IconString,
     disabled |-> item.Disabled]

\* SnooNote(note_id=item["NoteID"], ...)
MakeNote(item) ==
    [note_id |-> item.NoteID, note_type_id |-> item.NoteTypeID,
     sub_name |-> item.SubName, submitter |-> item.Submitter,
     message |-> item.Message, applies_to_username |-> item.AppliesToUsername,
     url |-> item.Url, timestamp |-> IsoParse(item.Timestamp),
     parent_subreddit |-> item.ParentSubreddit]

\* d[key] = value
DictPut(d, key, value) ==
    [k \in DOMAIN d \cup {key} |-> IF k = key THEN value ELSE d[k]]

\* the comparison without .lower()
IsDeletedExactCase(username) == username = DeletedMarker

\* if note.applies_to_username.lower() == "[deleted]"
IsDeleted(username) == Lower(username) = DeletedMarker

\* for item in json_output.get("NoteTypes", []): ...     st is the parser's
\* containers and the exception raised so far.
RECURSIVE ParseNoteTypes(_, _)
ParseNoteTypes(items, st) ==
    IF items = <<>> THEN st
    ELSE LET item == Head(items)
         IN  IF ~(NoteTypeKeys \subseteq DOMAIN item)
             THEN [st EXCEPT !.exc = "KeyError"]
             ELSE IF item.DisplayName \notin DOMAIN SNOONOTE_TO_MOD_NOTE_LABELS
             THEN [st EXCEPT !.exc = "ValueError"]
             ELSE ParseNoteTypes(Tail(items),
                    [st EXCEPT
                       !.note_type_map = DictPut(@, item.NoteTypeID, MakeNoteType(item)),
                       !.note_types = Append(@, MakeNoteType(item))])

\* the loop with self._notes.insert(0, note) for self._notes.append(note)
RECURSIVE ParseNotesPrepending(_, _)
ParseNotesPrepending(items, st) ==
    IF items = <<>> THEN st
    ELSE LET item == Head(items)
         IN  IF ~(NoteKeysToTimestamp \subseteq DOMAIN item)
             THEN [st EXCEPT !.exc = "KeyError"]
             ELSE IF IsoParseRaises(item.Timestamp)
             THEN [st EXCEPT !.exc = "ValueError"]
             ELSE IF "ParentSubreddit" \notin DOMAIN item
             THEN [st EXCEPT !.exc = "KeyError"]
             ELSE IF IsDeleted(item.AppliesToUsername)
             THEN ParseNotesPrepending(Tail(items), st)
             ELSE ParseNotesPrepending(Tail(items),
                                       [st EXCEPT !.notes = <<MakeNote(item)>> \o @])

\* for item in json_output.get("Notes", []): ...
RECURSIVE ParseNotes(_, _)
ParseNotes(items, st) ==
    IF items = <<>> THEN st
    ELSE LET item == Head(items)
         IN  IF ~(NoteKeysToTimestamp \subseteq DOMAIN item)
             THEN [st EXCEPT !.exc = "KeyError"]
             ELSE IF IsoParseRaises(item.Timestamp)
             THEN [st EXCEPT !.exc = "ValueError"]
             ELSE IF "ParentSubreddit" \notin DOMAIN item
             THEN [st EXCEPT !.exc = "KeyError"]
             ELSE IF IsDeleted(item.AppliesToUsername)
             THEN ParseNotes(Tail(items), st)
             ELSE ParseNotes(Tail(items), [st EXCEPT !.notes = Append(@, MakeNote(item))])

\* the handler re-raising what it caught
OnOSErrorReraise(st) == st

\* except OSError: self._log.exception(...); return
OnOSError(st) == [st EXCEPT !.exc = "NoExc"]

\* parse() with `except Exception` for `except OSError`
ParseFileCatchingAll(file, st) ==
    IF ~file.readable THEN OnOSError([st EXCEPT !.exc = "OSError"])
    ELSE LET types == ParseNoteTypes(file.NoteTypes, st)
         IN  OnOSError(IF types.exc # "NoExc" THEN types
                       ELSE ParseNotes(file.Notes, types))

\* parse() on the file: the containers it leaves and the exception it raises.
ParseFile(file, st) ==
    IF ~file.readable THEN OnOSError([st EXCEPT !.exc = "OSError"])
    ELSE LET types == ParseNoteTypes(file.NoteTypes, st)
         IN  IF types.exc # "NoExc" THEN types ELSE ParseNotes(file.Notes, types)

(***************************************************************************)
(* Reference resolution and posting: the local steps of convert between    *)
(* two calls on the platform client.  Each yields the next values of       *)
(* pc, i, thing, gen, post and escaped.                                    *)
(***************************************************************************)
NoGen == [header |-> <<>>, copy |-> <<>>, k |-> 0]

NoPost == [text |-> <<>>, label |-> "None", thing |-> "None", depth |-> 0]

\* "/" in url
HasSlash(url) == \E k \in DOMAIN url : url[k] = "/"

\* url.rsplit(sep="/", maxsplit=1)[1], for a url that holds a "/"
LastSegment(url) ==
    LET last == CHOOSE k \in DOMAIN url :
                    url[k] = "/" /\ \A j \in DOMAIN url : j > k => url[j] # "/"
    IN  SubSeq(url, last + 1, Len(url))

\* header = f"[{time}] [u/{author}]\n"
HeaderOf(note) ==
    <<"[">> \o IsoFormatSeconds(note.timestamp) \o <<"]", " ", "[", "u", "/">>
    \o note.submitter \o <<"]", "\n">>

Raise(n, th, exc) ==
    [pc |-> "raised", i |-> n, thing |-> th, gen |-> NoGen, post |-> NoPost,
     escaped |-> [in |-> "convert", exc |-> exc]]

\* for i, snoo_note in enumerate(self.notes): the loop reaches record n
StartRecord(ns, n) ==
    IF n > Len(ns)
    THEN [pc |-> "done", i |-> n, thing |-> "None", gen |-> NoGen,
          post |-> NoPost, escaped |-> NoEscape]
    ELSE [pc |-> "comment_url", i |-> n, thing |-> "None", gen |-> NoGen,
          post |-> NoPost, escaped |-> NoEscape]

\* SNOONOTE_TO_MOD_NOTE_LABELS[self.note_type_map[snoo_note.note_type_id].display_name]
\* followed by the first call of _post_to_reddit for `text`
PostText(n, th, g, text) ==
    LET note == notes[n]
    IN  IF note.note_type_id \notin DOMAIN note_type_map
        THEN Raise(n, th, "KeyError")
        ELSE IF note_type_map[note.note_type_id].display_name
                    \notin DOMAIN SNOONOTE_TO_MOD_NOTE_LABELS
        THEN Raise(n, th, "KeyError")
        ELSE [pc |-> "create", i |-> n, thing |-> th, gen |-> g,
              post |-> [text |-> text,
                        label |-> SNOONOTE_TO_MOD_NOTE_LABELS[
                                    note_type_map[note.note_type_id].display_name],
                        thing |-> th, depth |-> 1],
              escaped |-> NoEscape]

\* the generator of split_message_into_chunks is asked for its next chunk
NextChunk(n, th, g) ==
    IF Len(g.copy) = 0 THEN StartRecord(notes, n + 1)
    ELSE PostText(n, th,
                  [header |-> g.header,
                   copy |-> RestOf(g.header, g.copy, MOD_NOTE_MESSAGE_LENGTH),
                   k |-> g.k + 1],
                  ChunkOf(g.header, g.copy, MOD_NOTE_MESSAGE_LENGTH))

\* determine_submission_or_comment returned th: if len(full_message) > ... else ...
StartPosting(n, th) ==
    LET note == notes[n]
        header == HeaderOf(note)
        full_message == header \o note.message
    IN  IF Len(full_message) > MOD_NOTE_MESSAGE_LENGTH
        THEN NextChunk(n, th, [header |-> header, copy |-> note.message, k |-> 0])
        ELSE PostText(n, th, [header |-> header, copy |-> <<>>, k |-> 1], full_message)

\* the outermost _post_to_reddit of a text has returned
AfterPost(n, th, g) == NextChunk(n, th, g)

\* the second direct attempt raised InvalidURL:
\* reddit.comment(id=url.rsplit(sep="/", maxsplit=1)[1])
AfterDirectAttempts(n) ==
    IF HasSlash(notes[n].url)
    THEN [pc |-> "comment_id", i |-> n, thing |-> "None", gen |-> NoGen,
          post |-> NoPost, escaped |-> NoEscape]
    ELSE Raise(n, "None", "IndexError")

(***************************************************************************)
(* The generator driven on its own, on bounded arguments.                  *)
(***************************************************************************)
MaxHeaderLen == 3
MaxMessageLen == 4
MaxSizeArg == 4
\* How many chunks a consumer pulls before it stops asking.
MaxPulled == 4

RECURSIVE SeqsUpTo(_, _)
SeqsUpTo(S, n) ==
    IF n = 0 THEN {<<>>}
    ELSE LET shorter == SeqsUpTo(S, n - 1)
         IN  shorter \cup {Append(s, c) : s \in {t \in shorter : Len(t) = n - 1}, c \in S}

SplitHeaders == SeqsUpTo({"h"}, MaxHeaderLen)
SplitMessages == SeqsUpTo({"a", " "}, MaxMessageLen)

InitSplit ==
    /\ sHeader \in SplitHeaders
    /\ sMessage \in SplitMessages
    /\ sMax \in 1..MaxSizeArg
    /\ sCopy = sMessage
    /\ sChunks = <<>>
    /\ sDone = FALSE
    /\ export = [readable |-> FALSE, NoteTypes |-> <<>>, Notes |-> <<>>]
    /\ pc = "idle"
    /\ note_type_map = <<>>
    /\ note_types = <<>>
    /\ notes = <<>>
    /\ i = 0
    /\ thing = "None"
    /\ gen = NoGen
    /\ post = NoPost
    /\ escaped = NoEscape
    /\ calls = <<>>

\* while len(copy): ...; yield chunk
SplitYield ==
    /\ ~sDone
    /\ Len(sCopy) # 0
    /\ Len(sChunks) < MaxPulled
    /\ sChunks' = Append(sChunks, ChunkOf(sHeader, sCopy, sMax))
    /\ sCopy' = RestOf(sHeader, sCopy, sMax)
    /\ UNCHANGED <<sHeader, sMessage, sMax, sDone>>
    /\ UNCHANGED runVars

\* the loop condition fails and the generator returns
SplitReturn ==
    /\ ~sDone
    /\ Len(sCopy) = 0
    /\ sDone' = TRUE
    /\ UNCHANGED <<sHeader, sMessage, sMax, sCopy, sChunks>>
    /\ UNCHANGED runVars

NextSplit == SplitYield \/ SplitReturn

SpecSplit == InitSplit /\ [][NextSplit]_vars

(***************************************************************************)
(* The run: main() builds a parser on the export, calls parse() and then   *)
(* convert().  The platform client answers each call as it pleases.        *)
(***************************************************************************)
\* How deep _post_to_reddit may call itself before the interpreter's
\* recursion limit ends the run with RecursionError.
MaxRecursion == 3

Init ==
    /\ export \in Exports
    /\ pc = "parse"
    /\ note_type_map = <<>>
    /\ note_types = <<>>
    /\ notes = <<>>
    /\ i = 0
    /\ thing = "None"
    /\ gen = NoGen
    /\ post = NoPost
    /\ escaped = NoEscape
    /\ calls = <<>>
    /\ sHeader = <<>>
    /\ sMessage = <<>>
    /\ sMax = 0
    /\ sCopy = <<>>
    /\ sChunks = <<>>
    /\ sDone = FALSE

Apply(c) ==
    /\ pc' = c.pc
    /\ i' = c.i
    /\ thing' = c.thing
    /\ gen' = c.gen
    /\ post' = c.post
    /\ escaped' = c.escaped

\* What the log keeps of a call's answer: an exception of a lookup is kept
\* as "raised", whatever its class.
Answer(r) ==
    IF r \in {"InvalidURL", "ValueError", "ClientException", "NotFound"}
    THEN "raised" ELSE r

\* What a lookup is given: url=url in the direct attempts,
\* id=url.rsplit(sep="/", maxsplit=1)[1] in the id-based ones.
CallArg(op) ==
    IF op \in {"comment_url", "submission_url"} THEN notes[i].url
    ELSE IF op \in {"comment_id", "submission_id"} THEN LastSegment(notes[i].url)
    ELSE <<>>

\* One call on the platform client for the record being converted.
Call(op, th, r) ==
    [op |-> op, note |-> notes[i].note_id, chunk |-> gen.k, thing |-> th,
     arg |-> CallArg(op), result |-> Answer(r)]

\* main: snoonote_parser.parse()
Parse ==
    /\ pc = "parse"
    /\ LET r == ParseFile(export, [note_type_map |-> note_type_map,
                                   note_types |-> note_types,
                                   notes |-> notes, exc |-> "NoExc"])
       IN  /\ note_type_map' = r.note_type_map
           /\ note_types' = r.note_types
           /\ notes' = r.notes
           /\ pc' = IF r.exc = "NoExc" THEN "convert" ELSE "raised"
           /\ escaped' = IF r.exc = "NoExc" THEN NoEscape
                         ELSE [in |-> "parse", exc |-> r.exc]
    /\ UNCHANGED <<export, i, thing, gen, post, calls>>
    /\ UNCHANGED splitVars

\* main: snoonote_parser.convert(), up to its first call on the client
ConvertStart ==
    /\ pc = "convert"
    /\ Apply(StartRecord(notes, 1))
    /\ UNCHANGED <<export, note_type_map, note_types, notes, calls>>
    /\ UNCHANGED splitVars

\* item = reddit.comment(url=url)
LookupCommentUrl ==
    /\ pc = "comment_url"
    /\ \E r \in {"found", "InvalidURL"} :
          /\ calls' = Append(calls, Call("comment_url", "None", r))
          /\ Apply(IF r = "found" THEN StartPosting(i, "Comment")
                   ELSE [pc |-> "submission_url", i |-> i, thing |-> thing,
                         gen |-> gen, post |-> post, escaped |-> escaped])
    /\ UNCHANGED <<export, note_type_map, note_types, notes>>
    /\ UNCHANGED splitVars

\* item = reddit.submission(url=url)
LookupSubmissionUrl ==
    /\ pc = "submission_url"
    /\ \E r \in {"found", "InvalidURL"} :
          /\ calls' = Append(calls, Call("submission_url", "None", r))
          /\ Apply(IF r = "found" THEN StartPosting(i, "Submission")
                   ELSE AfterDirectAttempts(i))
    /\ UNCHANGED <<export, note_type_map, note_types, notes>>
    /\ UNCHANGED splitVars

\* the third attempt without `if item.subreddit`: whatever object the lookup
\* yields is returned
LookupCommentIdUnchecked ==
    /\ pc = "comment_id"
    /\ \E r \in {"found", "no_subreddit", "ValueError", "ClientException"} :
          /\ calls' = Append(calls, Call("comment_id", "None", r))
          /\ Apply(IF r \in {"found", "no_subreddit"} THEN StartPosting(i, "Comment")
                   ELSE [pc |-> "submission_id", i |-> i, thing |-> thing,
                         gen |-> gen, post |-> post, escaped |-> escaped])
    /\ UNCHANGED <<export, note_type_map, note_types, notes>>
    /\ UNCHANGED splitVars

\* item = reddit.comment(id=...); if item.subreddit: return item
\* "no_subreddit": the object has no owning subreddit and the function raises
\* InvalidURL itself.  "If it is not a comment, a ClientException is raised".
LookupCommentId ==
    /\ pc = "comment_id"
    /\ \E r \in {"found", "no_subreddit", "ValueError", "ClientException"} :
          /\ calls' = Append(calls, Call("comment_id", "None", r))
          /\ Apply(IF r = "found" THEN StartPosting(i, "Comment")
                   ELSE [pc |-> "submission_id", i |-> i, thing |-> thing,
                         gen |-> gen, post |-> post, escaped |-> escaped])
    /\ UNCHANGED <<export, note_type_map, note_types, notes>>
    /\ UNCHANGED splitVars

\* item = reddit.submission(id=...); if item.subreddit: return item
\* "If it is not a submission, a NotFound is raised"; every failure is caught
\* and the function returns None.
LookupSubmissionId ==
    /\ pc = "submission_id"
    /\ \E r \in {"found", "no_subreddit", "ValueError", "NotFound"} :
          /\ calls' = Append(calls, Call("submission_id", "None", r))
          /\ Apply(StartPosting(i, IF r = "found" THEN "Submission" ELSE "None"))
    /\ UNCHANGED <<export, note_type_map, note_types, notes>>
    /\ UNCHANGED splitVars

\* What _post_to_reddit does once notes.create has answered `r`.
OnCreateResult(r) ==
    IF r = "NO_THING_ID"
    THEN IF post.depth < MaxRecursion
         THEN [pc |-> "create", i |-> i, thing |-> thing, gen |-> gen,
               post |-> [post EXCEPT !.thing = "None", !.depth = @ + 1],
               escaped |-> escaped]
         ELSE Raise(i, thing, "RecursionError")
    ELSE AfterPost(i, thing, gen)

\* self._reddit.notes.create(label=..., note=..., redditor=..., subreddit=..., thing=...)
\* "OTHER" is a RedditAPIException of any other error_type.
CreateNote ==
    /\ pc = "create"
    /\ \E r \in {"created", "USER_DOESNT_EXIST", "NO_THING_ID", "OTHER"} :
          /\ calls' = Append(calls, Call("create", post.thing, r))
          /\ Apply(OnCreateResult(r))
    /\ UNCHANGED <<export, note_type_map, note_types, notes>>
    /\ UNCHANGED splitVars

Next ==
    \/ Parse
    \/ ConvertStart
    \/ LookupCommentUrl
    \/ LookupSubmissionUrl
    \/ LookupCommentId
    \/ LookupSubmissionId
    \/ CreateNote

Spec == Init /\ [][Next]_vars

(***************************************************************************)
(* Properties of the run                                                   *)
(***************************************************************************)
LookupOps == {"comment_url", "submission_url", "comment_id", "submission_id"}

Creates == {j \in DOMAIN calls : calls[j].op = "create"}

\* The create-note calls made for chunk k of the record with identifier id.
CreatesFor(id, k) == {j \in Creates : calls[j].note = id /\ calls[j].chunk = k}

\* Where the item with identifier id stands in the export.
PositionInExport(id) ==
    CHOOSE n \in DOMAIN export.Notes :
        "NoteID" \in DOMAIN export.Notes[n] /\ export.Notes[n].NoteID = id

\* a and b are equal but for the case of their letters
EqualIgnoringCase(a, b) ==
    /\ Len(a) = Len(b)
    /\ \A k \in DOMAIN a : LowerChar(a[k]) = LowerChar(b[k])

\* The export's items whose target is the tombstone marker, by identifier.
DeletedIds ==
    {export.Notes[n].NoteID : n \in
        {m \in DOMAIN export.Notes :
            /\ {"NoteID", "AppliesToUsername"} \subseteq DOMAIN export.Notes[m]
            /\ EqualIgnoringCase(export.Notes[m].AppliesToUsername, DeletedMarker)}}

\* The items of a sequence that are not for the tombstone marker, in order.
RECURSIVE LiveItems(_)
LiveItems(items) ==
    IF items = <<>> THEN <<>>
    ELSE IF EqualIgnoringCase(Head(items).AppliesToUsername, DeletedMarker)
    THEN LiveItems(Tail(items))
    ELSE <<Head(items)>> \o LiveItems(Tail(items))

ParsedOk == pc # "parse" /\ export.readable /\ escaped.in # "parse"

\* C2: for each note text that convert submits, the create-note operation is
\* invoked at most twice, and a second call carries no reference.
C2_AtMostTwoCreatesPerText ==
    \A j \in Creates :
        /\ Cardinality(CreatesFor(calls[j].note, calls[j].chunk)) <= 2
        /\ \A k \in CreatesFor(calls[j].note, calls[j].chunk) :
              k > j => calls[k].thing = "None"

\* C3: convert lets no exception escape the per-record loop, and once it has
\* returned every record of the notes list has had its reference looked up
\* and at least one create-note call.
C3_NoExceptionEscapesConvert ==
    /\ escaped.in # "convert"
    /\ pc = "done" =>
          \A n \in DOMAIN notes :
              /\ \E j \in DOMAIN calls :
                    calls[j].op \in LookupOps /\ calls[j].note = notes[n].note_id
              /\ \E j \in Creates : calls[j].note = notes[n].note_id

\* C4: if a note type of the export has a display name that is no key of the
\* mapping table, parse fails with an error and the parser exposes no note
\* type, no type-index entry and no note of that file.
C4_UnmappedTypeLeavesNothing ==
    (/\ pc # "parse"
     /\ export.readable
     /\ \E n \in DOMAIN export.NoteTypes :
           export.NoteTypes[n].DisplayName \notin DOMAIN SNOONOTE_TO_MOD_NOTE_LABELS)
    => /\ pc = "raised"
       /\ escaped.in = "parse"
       /\ note_types = <<>>
       /\ note_type_map = <<>>
       /\ notes = <<>>

\* No lookup made for record n was answered with an accepted object.
Unresolved(n) ==
    \A j \in DOMAIN calls :
        (calls[j].op \in LookupOps /\ calls[j].note = notes[n].note_id)
            => calls[j].result # "found"

\* C5: whatever the URL, when no resolution attempt yields an accepted object
\* determine_submission_or_comment returns None without raising, and convert
\* goes on to post the record with no reference.
C5_UnresolvedUrlReturnsNone ==
    (/\ i \in DOMAIN notes
     /\ pc \notin LookupOps
     /\ Unresolved(i))
    => /\ ~(pc = "raised" /\ escaped.exc = "IndexError")
       /\ thing = "None"
       /\ pc = "create" => post.thing = "None"

\* C6: a record whose target username is "[deleted]" in any letter case is
\* never in the notes list and never the subject of a lookup or a create-note
\* call; every other record of a successfully parsed export is in the list.
C6_DeletedRecordsExcluded ==
    LET deleted == DeletedIds
        live == LiveItems(export.Notes)
    IN  /\ \A n \in DOMAIN notes :
              ~EqualIgnoringCase(notes[n].applies_to_username, DeletedMarker)
        /\ \A j \in DOMAIN calls : calls[j].note \notin deleted
        /\ ParsedOk => notes = [n \in DOMAIN live |-> MakeNote(live[n])]

\* A run that converted a record of an export holding a "[deleted]" record.
C6_Witness ==
    /\ pc = "done"
    /\ DeletedIds # {}
    /\ Creates # {}

\* The text convert posts as chunk k of a note: the k-th slice of the message,
\* trimmed, behind the header; the header and the message when one Mod Note
\* holds both.
ExpectedText(note, k) ==
    LET header == HeaderOf(note)
        width == MOD_NOTE_MESSAGE_LENGTH - Len(header)
    IN  IF Len(header) + Len(note.message) <= MOD_NOTE_MESSAGE_LENGTH
        THEN header \o note.message
        ELSE header \o Strip(SubSeq(note.message, (k - 1) * width + 1,
                                    Min(k * width, Len(note.message))))

\* C7: create-note calls are issued in source order: the calls for an earlier
\* record of the export precede those for a later one; within a record the
\* calls follow chunk order, every call for a chunk (its retries too) made
\* before the first call for the next chunk.
C7_CallsInSourceOrder ==
    /\ \A j, k \in Creates :
          j < k =>
             \/ PositionInExport(calls[j].note) < PositionInExport(calls[k].note)
             \/ /\ calls[j].note = calls[k].note
                /\ calls[j].chunk <= calls[k].chunk
    /\ pc = "create" => post.text = ExpectedText(notes[i], gen.k)

\* Two records converted, one of them in two chunks with a retry of its first.
C7_Witness ==
    /\ pc = "done"
    /\ Cardinality({calls[j].note : j \in Creates}) = 2
    /\ \E j, k \in Creates :
          /\ j < k
          /\ calls[j].note = calls[k].note
          /\ calls[j].chunk = 1
          /\ calls[j].result = "NO_THING_ID"
          /\ calls[k].chunk = 2

\* C8: if the export file cannot be opened or read, parse fails with a
\* file-access error delivered to its caller and the run does not go on to
\* convert.
C8_UnreadableFileAbortsRun ==
    (~export.readable /\ pc # "parse")
    => /\ pc = "raised"
       /\ escaped = [in |-> "parse", exc |-> "OSError"]

\* C8 as amended: if opening or reading the export file raises OSError, parse
\* returns normally, no error reaches its caller and the parser's containers
\* are as before the call; the run goes on to convert, which has no record
\* and makes no call on the platform client.
C8_UnreadableFileIsSwallowed ==
    (~export.readable /\ pc # "parse")
    => /\ pc \in {"convert", "done"}
       /\ escaped = NoEscape
       /\ note_types = <<>>
       /\ note_type_map = <<>>
       /\ notes = <<>>
       /\ calls = <<>>

\* The run has ended on an export that could not be read.
C8_Witness == ~export.readable /\ pc = "done" /\ export.Notes # <<>>

\* C9: once a create-note call for a record has failed with
\* USER_DOESNT_EXIST, no further create-note call is made for that record.
C9_UserMissingDropsRecord ==
    \A j, k \in Creates :
        (j < k /\ calls[j].result = "USER_DOESNT_EXIST")
            => calls[k].note # calls[j].note

\* The export can be read and one of its items, at whatever position, has an
\* unmapped display name, lacks a field parse reads, or has a timestamp that
\* isoparse rejects.
HasStructuralError ==
    /\ export.readable
    /\ \/ \E t \in DOMAIN export.NoteTypes :
             \/ ~(NoteTypeKeys \subseteq DOMAIN export.NoteTypes[t])
             \/ export.NoteTypes[t].DisplayName \notin DOMAIN SNOONOTE_TO_MOD_NOTE_LABELS
       \/ \E n \in DOMAIN export.Notes :
             \/ ~((NoteKeysToTimestamp \cup {"ParentSubreddit"})
                      \subseteq DOMAIN export.Notes[n])
             \/ IsoParseRaises(export.Notes[n].Timestamp)

\* C11: in a run that calls parse and then convert, if parse fails with a
\* structural or configuration error (unmapped note-type label, missing
\* field, malformed timestamp) at any position in the file, the error leaves
\* parse, convert is not entered, and no reference lookup and no create-note
\* call is ever issued to the platform client.
C11_ParseFailureMakesNoCall ==
    HasStructuralError
    => /\ calls = <<>>
       /\ pc \in {"parse", "raised"}
       /\ pc = "raised" => escaped.in = "parse"

\* parse has failed on a later item, after it had stored a record that
\* convert could have posted.
C11_Witness ==
    /\ HasStructuralError
    /\ pc = "raised"
    /\ escaped.in = "parse"
    /\ notes # <<>>

\* The attempts of determine_submission_or_comment, in the order of the source.
AttemptOrder == <<"comment_url", "submission_url", "comment_id", "submission_id">>

\* The lookups made for the record with identifier id, in the order made.
LookupsFor(id) ==
    SelectSeq(calls, LAMBDA c : c.op \in LookupOps /\ c.note = id)

\* What determine_submission_or_comment hands back after the lookups L: the
\* object of the last lookup when that one was accepted, else nothing.
Returned(L) ==
    IF L # <<>> /\ L[Len(L)].result = "found"
    THEN IF L[Len(L)].op \in {"comment_url", "comment_id"} THEN "Comment"
         ELSE "Submission"
    ELSE "None"

UrlOfNote(id) == notes[CHOOSE n \in DOMAIN notes : notes[n].note_id = id].url

\* C13: determine_submission_or_comment makes its attempts in the fixed order
\* comment-by-URL, submission-by-URL, comment-by-id of the final path
\* segment, submission-by-id of the final path segment; it returns the object
\* of the first attempt that succeeds and makes no attempt after a success;
\* the object of an id-based attempt is returned only if it has an owning
\* subreddit.
C13_AttemptsInFixedOrder ==
    /\ \A id \in {calls[j].note : j \in DOMAIN calls} :
          LET L == LookupsFor(id)
              url == UrlOfNote(id)
              first == {j \in Creates :
                          /\ calls[j].note = id
                          /\ \A k \in Creates : calls[k].note = id => j <= k}
          IN  /\ Len(L) <= Len(AttemptOrder)
              /\ \A k \in DOMAIN L :
                    /\ L[k].op = AttemptOrder[k]
                    /\ L[k].arg = IF k <= 2 THEN url ELSE LastSegment(url)
                    /\ L[k].result = "found" => k = Len(L)
              /\ \A j \in first : calls[j].thing = Returned(L)
    /\ (i \in DOMAIN notes /\ pc = "create") =>
          thing = Returned(LookupsFor(notes[i].note_id))

\* A record whose comment-by-id lookup yielded an object without owning
\* subreddit was resolved by the submission-by-id lookup and posted with the
\* submission.
C13_Witness ==
    \E j, k, c \in DOMAIN calls :
        /\ j < k /\ k < c
        /\ calls[j].note = calls[k].note /\ calls[k].note = calls[c].note
        /\ calls[j].op = "comment_id" /\ calls[j].result = "no_subreddit"
        /\ calls[j].arg = <<"s","g","g","6","9","2">>
        /\ calls[k].op = "submission_id" /\ calls[k].result = "found"
        /\ calls[c].op = "create" /\ calls[c].thing = "Submission"

(***************************************************************************)
(* Properties of split_message_into_chunks                                 *)
(***************************************************************************)
BeginsWith(chunk, header) ==
    /\ Len(chunk) >= Len(header)
    /\ SubSeq(chunk, 1, Len(header)) = header

\* The chunks with the header taken off.
Bodies(chunks, header) ==
    [k \in DOMAIN chunks |-> SubSeq(chunks[k], Len(header) + 1, Len(chunks[k]))]

\* bodies are, in order, the stripped forms of consecutive non-empty slices
\* that together make up text.
RECURSIVE Reconstructs(_, _)
Reconstructs(bodies, text) ==
    IF bodies = <<>> THEN text = <<>>
    ELSE \E k \in 1..Len(text) :
            /\ Strip(SubSeq(text, 1, k)) = Head(bodies)
            /\ Reconstructs(Tail(bodies), SubSeq(text, k + 1, Len(text)))

\* C1: for every header, message and max_size, every chunk yielded by
\* split_message_into_chunks has length <= max_size.
C1_ChunkWithinMaxSize == \A k \in DOMAIN sChunks : Len(sChunks[k]) <= sMax

\* C10: every yielded chunk begins with the header, and the chunks with the
\* header stripped are the trimmed forms of consecutive slices of the message:
\* of a front part of it while the generator runs, of the whole message once
\* it has returned.
C10_ChunksReconstructMessage ==
    /\ \A k \in DOMAIN sChunks : BeginsWith(sChunks[k], sHeader)
    /\ \E n \in 0..Len(sMessage) :
          Reconstructs(Bodies(sChunks, sHeader), SubSeq(sMessage, 1, n))
    /\ sDone => Reconstructs(Bodies(sChunks, sHeader), sMessage)

\* ceil(n / d) for d > 0
CeilDiv(n, d) == (n + d - 1) \div d

\* How many chunks the generator yields before it returns, for arguments on
\* which it does return.
RECURSIVE CountChunks(_, _, _)
CountChunks(header, copy, max_size) ==
    IF Len(copy) = 0 THEN 0
    ELSE 1 + CountChunks(header, RestOf(header, copy, max_size), max_size)

\* C12: for every header, message and max_size, split_message_into_chunks
\* terminates: the remaining body has lost at least one character for every
\* chunk yielded, the chunks never outnumber
\* ceil(len(message) / (max_size - len(header))), and there are exactly that
\* many once the generator has returned; an 800-character message with a
\* 30-character header and max_size 250 gives 4 chunks.
C12_TerminatesWithCeilChunks ==
    /\ Len(sCopy) + Len(sChunks) <= Len(sMessage)
    /\ ChunkLen(sHeader, sMax) > 0 =>
          /\ Len(sChunks) <= CeilDiv(Len(sMessage), ChunkLen(sHeader, sMax))
          /\ sDone => Len(sChunks) = CeilDiv(Len(sMessage), ChunkLen(sHeader, sMax))
    /\ CountChunks(Rep("h", 30), Rep("a", 800), MOD_NOTE_MESSAGE_LENGTH) = 4

====
